---- MODULE Spec2Model ----
(***************************************************************************)
(* healthy-byte: the recipesSuggestion callable (a Genkit flow) and the    *)
(* nutritionFactsTool it hands to the model runtime (src/lib/index.js).    *)
(*                                                                         *)
(* Numbers.  The nutrition fields are JavaScript numbers (IEEE doubles).   *)
(* The model carries a number as an integer count of quarters (q stands    *)
(* for q/4): doubles represent and add multiples of 1/4 exactly, so        *)
(* `+=`, toFixed(1) and Number::toString are modelled exactly on this      *)
(* grid, including the toFixed ties x.25 and x.75.                         *)
(***************************************************************************)
EXTENDS Integers, Sequences, FiniteSets, TLC

(* ------------------------------ bounds -------------------------------- *)
\* tool invocations that may overlap
MaxCalls == 2
\* flow invocations that may overlap
MaxFlows == 2
\* longest nutrition API response array enumerated by SpecTool
MaxItems == 2

Calls == 1..MaxCalls
Flows == 1..MaxFlows

(* --------------------------- JSON values ------------------------------ *)
Num(q) == [t |-> "number", n |-> q, s |-> ""]
Str(x) == [t |-> "string", n |-> 0, s |-> x]
Without(obj, f) == [k \in (DOMAIN obj) \ {f} |-> obj[k]]

(* --------------------- nutritionInformationSchema --------------------- *)
StringFields == {"name", "calories", "serving_size_g", "protein_g"}
NumberFields == {"fat_total_g", "fat_saturated_g", "sodium_mg", "potassium_mg",
                 "cholesterol_mg", "carbohydrates_total_g", "fiber_g", "sugar_g"}

\* the mutant of the item schema: protein_g declared z.number()
nutritionItemSchemaProteinNumber(item) ==
    /\ \A f \in StringFields \ {"protein_g"} : f \in DOMAIN item /\ item[f].t = "string"
    /\ \A f \in NumberFields \cup {"protein_g"} : f \in DOMAIN item /\ item[f].t = "number"
\* z.object({...}) on one array element: every declared key present with its type
\* (name, calories, serving_size_g and protein_g strings, the other eight numbers)
nutritionItemSchema(item) ==
    /\ \A f \in StringFields : f \in DOMAIN item /\ item[f].t = "string"
    /\ \A f \in NumberFields : f \in DOMAIN item /\ item[f].t = "number"

\* the mutant of safeParse: keep the items that validate, drop the others
safeParsePartial(data) ==
    [success |-> data.kind = "array",
     data |-> SelectSeq(data.items, nutritionItemSchema)]
\* nutritionInformationSchema.safeParse(response.data): z.array(z.object(...))
safeParse(data) ==
    IF data.kind = "array" /\ \A k \in 1..Len(data.items) : nutritionItemSchema(data.items[k])
    THEN [success |-> TRUE, data |-> data.items]
    ELSE [success |-> FALSE, data |-> <<>>]

(* ------------------------------ reduce -------------------------------- *)
ZeroTotal == [fat |-> 0, satFat |-> 0, sodium |-> 0, cholesterol |-> 0,
              carbs |-> 0, sugar |-> 0, potassium |-> 0]

\* the mutant of the reducer: sodium accumulates the potassium field
reducerSwapped(acc, item) ==
    [fat |-> acc.fat + item["fat_total_g"].n,
     satFat |-> acc.satFat + item["fat_saturated_g"].n,
     sodium |-> acc.sodium + item["potassium_mg"].n,
     cholesterol |-> acc.cholesterol + item["cholesterol_mg"].n,
     carbs |-> acc.carbs + item["carbohydrates_total_g"].n,
     sugar |-> acc.sugar + item["sugar_g"].n,
     potassium |-> acc.potassium + item["potassium_mg"].n]
\* (acc, item) => { acc.fat += item.fat_total_g; ...; return acc; }
reducer(acc, item) ==
    [fat |-> acc.fat + item["fat_total_g"].n,
     satFat |-> acc.satFat + item["fat_saturated_g"].n,
     sodium |-> acc.sodium + item["sodium_mg"].n,
     cholesterol |-> acc.cholesterol + item["cholesterol_mg"].n,
     carbs |-> acc.carbs + item["carbohydrates_total_g"].n,
     sugar |-> acc.sugar + item["sugar_g"].n,
     potassium |-> acc.potassium + item["potassium_mg"].n]

\* Array.prototype.reduce(reducer, initial): left to right
RECURSIVE reduce(_, _)
reduce(data, acc) ==
    IF data = <<>> THEN acc ELSE reduce(Tail(data), reducer(acc, Head(data)))

(* --------------------------- number to text --------------------------- *)
Abs(x) == IF x < 0 THEN -x ELSE x

\* the mutant of toFixed: the digits after the first decimal are cut off
toFixed1Truncating(q) ==
    LET n == (10 * Abs(q)) \div 4
    IN (IF q < 0 THEN "-" ELSE "") \o ToString(n \div 10) \o "." \o ToString(n % 10)
\* Number.prototype.toFixed(1) of q/4: the sign, then the integer n for which
\* n/10 is closest to |q|/4, the larger n on a tie, written with one decimal
toFixed1(q) ==
    LET n == (5 * Abs(q) + 1) \div 2
    IN (IF q < 0 THEN "-" ELSE "") \o ToString(n \div 10) \o "." \o ToString(n % 10)

\* template-literal ${x}: Number::toString, the shortest exact decimal of q/4
NumberToString(q) ==
    LET a == Abs(q)
        frac == CASE a % 4 = 0 -> ""
                  [] a % 4 = 1 -> ".25"
                  [] a % 4 = 2 -> ".5"
                  [] OTHER -> ".75"
    IN (IF q < 0 THEN "-" ELSE "") \o ToString(a \div 4) \o frac

\* the mutant of the template: sodium and cholesterol change places
formatSummarySwapped(tot) ==
    "Total fat: " \o toFixed1(tot.fat) \o "g, saturated fat: " \o toFixed1(tot.satFat)
    \o "g, sodium: " \o NumberToString(tot.cholesterol)
    \o "mg, cholesterol: " \o NumberToString(tot.sodium)
    \o "mg, carbs: " \o toFixed1(tot.carbs) \o "g, sugars: " \o toFixed1(tot.sugar)
    \o "g, potassium: " \o NumberToString(tot.potassium) \o "mg."
\* the returned template literal
formatSummary(tot) ==
    "Total fat: " \o toFixed1(tot.fat) \o "g, saturated fat: " \o toFixed1(tot.satFat)
    \o "g, sodium: " \o NumberToString(tot.sodium)
    \o "mg, cholesterol: " \o NumberToString(tot.cholesterol)
    \o "mg, carbs: " \o toFixed1(tot.carbs) \o "g, sugars: " \o toFixed1(tot.sugar)
    \o "g, potassium: " \o NumberToString(tot.potassium) \o "mg."

(* ------------------------------ inputs -------------------------------- *)
\* process.env.API_NINJA_KEY: unset, set to the empty string, or set
KeyUndefined == "<undefined>"
EnvKeys == {KeyUndefined, "", "secret-key"}

Premium == "Only available for premium subscribers."
NutritionItem(fat, satFat, sodium, cholesterol, carbs, sugar, potassium) ==
    [name |-> Str("food"), calories |-> Str(Premium), serving_size_g |-> Str(Premium),
     fat_total_g |-> Num(fat), fat_saturated_g |-> Num(satFat), protein_g |-> Str(Premium),
     sodium_mg |-> Num(sodium), potassium_mg |-> Num(potassium),
     cholesterol_mg |-> Num(cholesterol), carbohydrates_total_g |-> Num(carbs),
     fiber_g |-> Num(4), sugar_g |-> Num(sugar)]

\* fat 10, saturated fat 2, sodium 100, cholesterol 5, carbs 20, sugar 3, potassium 50
ItemA == NutritionItem(40, 8, 400, 20, 80, 12, 200)
\* fat 5, saturated fat 1, sodium 50, cholesterol 2, carbs 10, sugar 1, potassium 25
ItemB == NutritionItem(20, 4, 200, 8, 40, 4, 100)
\* fractions: fat 0.25, saturated fat 1.75, sodium 10.5, cholesterol 0.25,
\* carbs 2.5, sugar -0.25, potassium 0.75
ItemFrac == NutritionItem(1, 7, 42, 1, 10, -1, 3)
\* a numeric field arrives as a string
ItemFatString == [ItemA EXCEPT !["fat_total_g"] = Str("10")]
\* a field is missing
ItemNoSugar == Without(ItemB, "sugar_g")
\* the premium API shape: protein_g arrives as a number
ItemProteinNumber == [ItemA EXCEPT !["protein_g"] = Num(100)]

\* calories arrives as a number
ItemCaloriesNumber == [ItemB EXCEPT !["calories"] = Num(660)]

ItemPool == {ItemA, ItemB, ItemFrac, ItemFatString, ItemNoSugar, ItemProteinNumber,
             ItemCaloriesNumber}

RECURSIVE SeqsUpTo(_, _)
SeqsUpTo(S, n) ==
    IF n = 0 THEN {<<>>}
    ELSE LET shorter == SeqsUpTo(S, n - 1)
         IN shorter \cup {Append(q, x) : q \in shorter, x \in S}

ArrayBody(items) == [kind |-> "array", items |-> items]
\* a body that is no array, such as {"error": "..."}
ObjectBody == [kind |-> "object", items |-> <<>>]
NoBody == [kind |-> "none", items |-> <<>>]

\* every response body of at most MaxItems items
AllBodies == {ArrayBody(q) : q \in SeqsUpTo(ItemPool, MaxItems)} \cup {ObjectBody}
\* the bodies the specification of overlapping invocations draws from
SampleBodies == {ArrayBody(<<ItemA, ItemB>>), ArrayBody(<<ItemFrac>>),
                 ArrayBody(<<ItemA, ItemFatString>>), ObjectBody}
\* the bodies the specification of the whole system draws from: one the schema
\* accepts and one it rejects
FlowBodies == {ArrayBody(<<ItemA, ItemB>>), ArrayBody(<<ItemA, ItemFatString>>)}

IngredientsLists == {"150g beef and 200g pumpkin", "2 eggs and 50g flour"}
FlowIngredientsLists == {"150g beef and 200g pumpkin"}

(* ------------------------------ errors -------------------------------- *)
\* an Error object: its message, and its own enumerable properties as key/value pairs
\* (message and stack of an Error are not enumerable)
ErrorObj(name, message, own) == [name |-> name, message |-> message, own |-> own]
NoError == ErrorObj("", "", <<>>)
KeyNotSetError == ErrorObj("Error", "API_NINJA_KEY environment variable is not set.", <<>>)
InvalidFormatError == ErrorObj("Error", "Invalid nutrition data format received from API.", <<>>)
\* what axios rejects with: an AxiosError, which carries code and status
AxiosError == ErrorObj("AxiosError", "Request failed with status code 502",
                       << <<"code", "ERR_BAD_RESPONSE">>, <<"status", "502">> >>)
GenericToolMessage == "Unable to retrieve or process nutrition information."
\* JSON.stringify(error): the own enumerable properties only
RECURSIVE StringifyPairs(_)
StringifyPairs(own) ==
    IF own = <<>> THEN ""
    ELSE "\"" \o Head(own)[1] \o "\":\"" \o Head(own)[2] \o "\""
         \o (IF Tail(own) = <<>> THEN "" ELSE "," \o StringifyPairs(Tail(own)))
JSONstringify(err) == "{" \o StringifyPairs(err.own) \o "}"

\* what ai.generate rejects with when the model service fails
GenerationError == ErrorObj("GenkitError", "UNAVAILABLE: the model is overloaded",
                            << <<"status", "UNAVAILABLE">>, <<"code", "503">> >>)
\* a plain Error, whose message is not enumerable
PlainGenerationError == ErrorObj("Error", "fetch failed", <<>>)
GenerationErrors == {GenerationError, PlainGenerationError}

\* what the flow throws to its caller
Thrown(name, code, message) == [name |-> name, code |-> code, message |-> message]
NothingThrown == Thrown("", "", "")
\* the flow wrapper's error for a handler result that does not match outputSchema
OutputSchemaError == Thrown("GenkitError", "INVALID_ARGUMENT", "Schema validation failed.")

(* --------------------------- model outputs ---------------------------- *)
Undefined == [t |-> "undefined", n |-> 0, s |-> ""]
Recipe(title) ==
    [title |-> title, ingredients |-> Str("200g rice, 1 onion"),
     instructions |-> Str("Boil the rice."), nutritionInformation |-> Str("Total fat: 15.0g")]
GoodRecipe == Recipe(Str("Risotto"))
RecipeTitleNumber == Recipe(Num(4))
RecipeNoNutrition == Without(GoodRecipe, "nutritionInformation")

Output(kind, recipesKind, recipes, healthiest) ==
    [kind |-> kind, recipesKind |-> recipesKind, recipes |-> recipes,
     healthiestRecommendation |-> healthiest]
NoOutput == Output("none", "undefined", <<>>, Undefined)
\* llmResponse.output when the model's text holds no JSON
NullOutput == Output("null", "undefined", <<>>, Undefined)
GoodOutput(recipes) == Output("object", "array", recipes, Str("Risotto is the healthiest."))

LlmOutputs ==
    {GoodOutput(<<GoodRecipe, GoodRecipe, GoodRecipe>>),
     GoodOutput(<<>>),
     GoodOutput(<<GoodRecipe, GoodRecipe, GoodRecipe, GoodRecipe>>),
     NullOutput,
     Output("object", "array", <<GoodRecipe>>, Undefined),
     Output("object", "string", <<>>, Str("Risotto is the healthiest.")),
     GoodOutput(<<GoodRecipe, RecipeTitleNumber, GoodRecipe>>),
     GoodOutput(<<RecipeNoNutrition>>)}

RecipeFields == {"title", "ingredients", "instructions", "nutritionInformation"}
\* the mutant of the recipe schema: only the title is checked
recipeSchemaTitleOnly(r) == "title" \in DOMAIN r /\ r["title"].t = "string"
\* z.object({title, ingredients, instructions, nutritionInformation: z.string()})
recipeSchema(r) == \A f \in RecipeFields : f \in DOMAIN r /\ r[f].t = "string"

\* the mutant of the output schema: recipes declared with .length(3)
outputSchemaExactlyThree(out) ==
    /\ out.kind = "object"
    /\ out.recipesKind = "array"
    /\ Len(out.recipes) = 3
    /\ \A k \in 1..Len(out.recipes) : recipeSchema(out.recipes[k])
    /\ out.healthiestRecommendation.t = "string"
\* the mutant of the output schema: any value passes
outputSchemaAny(out) == TRUE
\* outputSchema: z.object({recipes: z.array(recipeSchema), healthiestRecommendation: z.string()})
outputSchema(out) ==
    /\ out.kind = "object"
    /\ out.recipesKind = "array"
    /\ \A k \in 1..Len(out.recipes) : recipeSchema(out.recipes[k])
    /\ out.healthiestRecommendation.t = "string"
(* ------------------------------- state -------------------------------- *)
VARIABLES
    apiNinjaKey,      \* process.env.API_NINJA_KEY
    toolPc,           \* per tool invocation: "idle", "awaiting" (the GET), "returned", "threw"
    toolFlow,         \* the flow invocation whose generate call issued it (0: none yet)
    ingredientsList,  \* its input
    httpGets,         \* the GETs it has issued to the nutrition endpoint
    response,         \* what axios.get settled with
    total,            \* its accumulator object after reduce
    toolResult,       \* the string it returned
    toolError,        \* the Error it threw to its caller
    toolLog,          \* its console.error lines
    flowPc,           \* per flow invocation: "idle", "generating", "done", "failed"
    generateCalls,    \* the ai.generate calls it has issued
    generateError,    \* what ai.generate rejected with
    llmOutput,        \* llmResponse.output
    flowResult,       \* what the caller receives
    flowError,        \* what the caller receives instead
    flowLog           \* the console lines of the flow handler

toolVars == <<toolPc, toolFlow, ingredientsList, httpGets, response, total,
              toolResult, toolError, toolLog>>
flowVars == <<flowPc, generateCalls, generateError, llmOutput, flowResult, flowError, flowLog>>
vars == <<apiNinjaKey, toolVars, flowVars>>

NoResult == "<no result>"
Settled(status, data) == [status |-> status, data |-> data]

InitTools ==
    /\ toolPc = [i \in Calls |-> "idle"]
    /\ toolFlow = [i \in Calls |-> 0]
    /\ ingredientsList = [i \in Calls |-> ""]
    /\ httpGets = [i \in Calls |-> 0]
    /\ response = [i \in Calls |-> Settled("pending", NoBody)]
    /\ total = [i \in Calls |-> ZeroTotal]
    /\ toolResult = [i \in Calls |-> NoResult]
    /\ toolError = [i \in Calls |-> NoError]
    /\ toolLog = [i \in Calls |-> <<>>]

Init ==
    /\ apiNinjaKey \in EnvKeys
    /\ InitTools
    /\ flowPc = [f \in Flows |-> "idle"]
    /\ generateCalls = [f \in Flows |-> 0]
    /\ generateError = [f \in Flows |-> NoError]
    /\ llmOutput = [f \in Flows |-> NoOutput]
    /\ flowResult = [f \in Flows |-> NoOutput]
    /\ flowError = [f \in Flows |-> NothingThrown]
    /\ flowLog = [f \in Flows |-> <<>>]

(* ------------------------- nutritionFactsTool ------------------------- *)
\* the mutant of the key check: apiNinjaKey === undefined
keyMissingUndefinedOnly(key) == key = KeyUndefined
\* !apiNinjaKey: undefined and the empty string are falsy
keyMissing(key) == key = KeyUndefined \/ key = ""

\* the mutant of the catch block: throw err
catchRethrow(err) == err
\* catch (err) { ...; throw new Error("Unable to retrieve or process ...") }
catchConvert(err) == ErrorObj("Error", GenericToolMessage, <<>>)

\* the mutant of the initial accumulator: one object shared by every invocation,
\* which reduce mutates in place
initialValueShared(i) ==
    IF \E j \in Calls : j # i /\ toolPc[j] = "returned"
    THEN total[CHOOSE j \in Calls : j # i /\ toolPc[j] = "returned"]
    ELSE ZeroTotal
\* the object literal passed to reduce: created by each invocation
initialValue(i) == ZeroTotal

\* the mutant of the catch block: the generic error is thrown without console.error
CaughtSilent(i, logged, err) ==
    /\ toolPc' = [toolPc EXCEPT ![i] = "threw"]
    /\ toolError' = [toolError EXCEPT ![i] = catchConvert(err)]
    /\ toolLog' = [toolLog EXCEPT ![i] = @ \o logged]
    /\ UNCHANGED <<total, toolResult>>
\* the mutant of the catch block: the error is logged and an all-zero summary
\* is returned in place of the throw
CaughtSwallowed(i, logged, err) ==
    /\ toolPc' = [toolPc EXCEPT ![i] = "returned"]
    /\ toolResult' = [toolResult EXCEPT ![i] = formatSummary(ZeroTotal)]
    /\ toolLog' = [toolLog EXCEPT
                     ![i] = @ \o logged \o <<"Error in nutritionFactsTool: " \o err.message>>]
    /\ UNCHANGED <<total, toolError>>
\* an error thrown inside the try block of invocation i, after the lines `logged`
Caught(i, logged, err) ==
    /\ toolPc' = [toolPc EXCEPT ![i] = "threw"]
    /\ toolError' = [toolError EXCEPT ![i] = catchConvert(err)]
    /\ toolLog' = [toolLog EXCEPT
                     ![i] = @ \o logged \o <<"Error in nutritionFactsTool: " \o err.message>>]
    /\ UNCHANGED <<total, toolResult>>

\* the model runtime invokes the tool: the handler runs up to the await of axios.get
\* (invocations are numbered in the order they start)
ToolCall(i, f, list) ==
    /\ toolPc[i] = "idle"
    /\ \A j \in Calls : j < i => toolPc[j] # "idle"
    /\ flowPc[f] = "generating"
    /\ toolFlow' = [toolFlow EXCEPT ![i] = f]
    /\ ingredientsList' = [ingredientsList EXCEPT ![i] = list]
    /\ IF keyMissing(apiNinjaKey)
       THEN /\ Caught(i, <<>>, KeyNotSetError)
            /\ UNCHANGED httpGets
       ELSE /\ httpGets' = [httpGets EXCEPT ![i] = @ + 1]
            /\ toolPc' = [toolPc EXCEPT ![i] = "awaiting"]
            /\ UNCHANGED <<total, toolResult, toolError, toolLog>>
    /\ UNCHANGED <<apiNinjaKey, response, flowVars>>

\* axios.get resolves with `body`: safeParse, reduce and the template run to the end
ToolResume(i, body) ==
    /\ toolPc[i] = "awaiting"
    /\ response' = [response EXCEPT ![i] = Settled("resolved", body)]
    /\ LET parsed == safeParse(body)
       IN IF parsed.success
          THEN LET tot == reduce(parsed.data, initialValue(i))
               IN /\ total' = [total EXCEPT ![i] = tot]
                  /\ toolResult' = [toolResult EXCEPT ![i] = formatSummary(tot)]
                  /\ toolPc' = [toolPc EXCEPT ![i] = "returned"]
                  /\ UNCHANGED <<toolError, toolLog>>
          ELSE Caught(i, <<"Nutrition data validation failed:">>, InvalidFormatError)
    /\ UNCHANGED <<apiNinjaKey, toolFlow, ingredientsList, httpGets, flowVars>>

\* the mutant of the rejection path: the GET is issued again
ToolHttpErrorRetry(i) ==
    /\ toolPc[i] = "awaiting"
    /\ httpGets' = [httpGets EXCEPT ![i] = @ + 1]
    /\ UNCHANGED <<apiNinjaKey, toolPc, toolFlow, ingredientsList, response, total,
                   toolResult, toolError, toolLog, flowVars>>
\* axios.get rejects (network failure, or a status outside 2xx)
ToolHttpError(i) ==
    /\ toolPc[i] = "awaiting"
    /\ response' = [response EXCEPT ![i] = Settled("rejected", NoBody)]
    /\ Caught(i, <<>>, AxiosError)
    /\ UNCHANGED <<apiNinjaKey, toolFlow, ingredientsList, httpGets, flowVars>>

(* ------------------------ recipesSuggestionFlow ----------------------- *)
OwnCalls(f) == {i \in Calls : toolFlow[i] = f}

\* the mutant of the flow's catch block: throw error
flowCatchRethrow(err) == Thrown(err.name, "", err.message)
\* catch (error) { throw new HttpsError("internal", JSON.stringify(error)) }
flowCatch(err) == Thrown("HttpsError", "internal", JSONstringify(err))

\* the callable is invoked: the handler runs up to the await of ai.generate
\* (invocations are numbered in the order they start)
FlowCall(f) ==
    /\ flowPc[f] = "idle"
    /\ \A g \in Flows : g < f => flowPc[g] # "idle"
    /\ flowPc' = [flowPc EXCEPT ![f] = "generating"]
    /\ generateCalls' = [generateCalls EXCEPT ![f] = @ + 1]
    /\ UNCHANGED <<apiNinjaKey, toolVars, generateError, llmOutput, flowResult,
                   flowError, flowLog>>

\* ai.generate resolves, every tool call it made having returned: the handler
\* returns llmResponse.output and its try block ends; defineFlow then checks the
\* returned value against outputSchema and throws its own error on a mismatch
GenerateResolve(f, out) ==
    /\ flowPc[f] = "generating"
    /\ \A i \in OwnCalls(f) : toolPc[i] = "returned"
    /\ llmOutput' = [llmOutput EXCEPT ![f] = out]
    /\ IF outputSchema(out)
       THEN /\ flowResult' = [flowResult EXCEPT ![f] = out]
            /\ flowPc' = [flowPc EXCEPT ![f] = "done"]
            /\ UNCHANGED flowError
       ELSE /\ flowError' = [flowError EXCEPT ![f] = OutputSchemaError]
            /\ flowPc' = [flowPc EXCEPT ![f] = "failed"]
            /\ UNCHANGED flowResult
    /\ UNCHANGED <<apiNinjaKey, toolVars, generateCalls, generateError, flowLog>>

\* what ai.generate can reject with: a failure of the model service between tool
\* rounds, or the error one of its tool calls threw (the runtime rethrows it)
Rejections(f) ==
    {e \in GenerationErrors : \A i \in OwnCalls(f) : toolPc[i] # "awaiting"}
    \cup {toolError[i] : i \in {j \in OwnCalls(f) : toolPc[j] = "threw"}}

\* the mutant of the rejection path: ai.generate is called again
GenerateRejectRetry(f, err) ==
    /\ flowPc[f] = "generating"
    /\ err \in Rejections(f)
    /\ generateCalls' = [generateCalls EXCEPT ![f] = @ + 1]
    /\ UNCHANGED <<apiNinjaKey, toolVars, flowPc, generateError, llmOutput, flowResult,
                   flowError, flowLog>>
\* ai.generate rejects: the catch block of the handler runs
GenerateReject(f, err) ==
    /\ flowPc[f] = "generating"
    /\ err \in Rejections(f)
    /\ generateError' = [generateError EXCEPT ![f] = err]
    /\ flowError' = [flowError EXCEPT ![f] = flowCatch(err)]
    /\ flowPc' = [flowPc EXCEPT ![f] = "failed"]
    /\ UNCHANGED <<apiNinjaKey, toolVars, generateCalls, llmOutput, flowResult, flowLog>>

(* --------------------------- specifications --------------------------- *)
Next ==
    \/ \E f \in Flows : FlowCall(f)
    \/ \E i \in Calls, f \in Flows, list \in FlowIngredientsLists : ToolCall(i, f, list)
    \/ \E i \in Calls, body \in FlowBodies : ToolResume(i, body)
    \/ \E i \in Calls : ToolHttpError(i)
    \/ \E f \in Flows, out \in LlmOutputs : GenerateResolve(f, out)
    \/ \E f \in Flows, err \in GenerationErrors \cup {toolError[i] : i \in Calls} :
          GenerateReject(f, err)

Spec == Init /\ [][Next]_vars

\* overlapping tool invocations, issued by generate calls that are under way
InitCalls ==
    /\ apiNinjaKey \in EnvKeys
    /\ InitTools
    /\ flowPc = [f \in Flows |-> "generating"]
    /\ generateCalls = [f \in Flows |-> 1]
    /\ generateError = [f \in Flows |-> NoError]
    /\ llmOutput = [f \in Flows |-> NoOutput]
    /\ flowResult = [f \in Flows |-> NoOutput]
    /\ flowError = [f \in Flows |-> NothingThrown]
    /\ flowLog = [f \in Flows |-> <<>>]

NextCalls ==
    \/ \E i \in Calls, f \in Flows, list \in IngredientsLists : ToolCall(i, f, list)
    \/ \E i \in Calls, body \in SampleBodies : ToolResume(i, body)
    \/ \E i \in Calls : ToolHttpError(i)

SpecCalls == InitCalls /\ [][NextCalls]_vars

\* one tool invocation, inside a generate call, over every response body
InitTool ==
    /\ apiNinjaKey \in EnvKeys
    /\ InitTools
    /\ flowPc = [f \in Flows |-> IF f = 1 THEN "generating" ELSE "idle"]
    /\ generateCalls = [f \in Flows |-> IF f = 1 THEN 1 ELSE 0]
    /\ generateError = [f \in Flows |-> NoError]
    /\ llmOutput = [f \in Flows |-> NoOutput]
    /\ flowResult = [f \in Flows |-> NoOutput]
    /\ flowError = [f \in Flows |-> NothingThrown]
    /\ flowLog = [f \in Flows |-> <<>>]

NextTool ==
    \/ \E list \in IngredientsLists : ToolCall(1, 1, list)
    \/ \E body \in AllBodies : ToolResume(1, body)
    \/ ToolHttpError(1)

SpecTool == InitTool /\ [][NextTool]_vars
(* ============================== claims ================================ *)
Finished(i) == toolPc[i] \in {"returned", "threw"}
Resolved(i) == response[i].status = "resolved"
Items(i) == response[i].data.items

\* the sum of field f over the items, from the last item down
RECURSIVE FieldSum(_, _, _)
FieldSum(items, f, k) == IF k = 0 THEN 0 ELSE items[k][f].n + FieldSum(items, f, k - 1)
SumOf(items, f) == FieldSum(items, f, Len(items))

\* n tenths is q/4 rounded to one decimal place: no other number of tenths is
\* closer to |q|/4, and of two equally close ones n is the larger
IsRoundedTenths(n, q) ==
    \A m \in 0..(3 * Abs(q) + 1) :
        \/ Abs(4 * n - 10 * Abs(q)) < Abs(4 * m - 10 * Abs(q))
        \/ (Abs(4 * n - 10 * Abs(q)) = Abs(4 * m - 10 * Abs(q)) /\ n >= m)
\* (the closest number of tenths lies within one of 10|q|/4)
RoundedTenths(q) ==
    CHOOSE n \in ((10 * Abs(q)) \div 4 - 1)..((10 * Abs(q)) \div 4 + 1) : IsRoundedTenths(n, q)
Sign(q) == IF q < 0 THEN "-" ELSE ""
\* the decimal text of q/4 rounded to tenths, and of q/4 written out in full
TenthsText(q) ==
    LET n == RoundedTenths(q)
    IN Sign(q) \o ToString(n \div 10) \o "." \o ToString(n % 10)
ExactText(q) ==
    Sign(q) \o ToString(Abs(q) \div 4) \o <<"", ".25", ".5", ".75">>[(Abs(q) % 4) + 1]

ExpectedSentence(items) ==
    "Total fat: " \o TenthsText(SumOf(items, "fat_total_g")) \o "g, "
    \o "saturated fat: " \o TenthsText(SumOf(items, "fat_saturated_g")) \o "g, "
    \o "sodium: " \o ExactText(SumOf(items, "sodium_mg")) \o "mg, "
    \o "cholesterol: " \o ExactText(SumOf(items, "cholesterol_mg")) \o "mg, "
    \o "carbs: " \o TenthsText(SumOf(items, "carbohydrates_total_g")) \o "g, "
    \o "sugars: " \o TenthsText(SumOf(items, "sugar_g")) \o "g, "
    \o "potassium: " \o ExactText(SumOf(items, "potassium_mg")) \o "mg."

C2_ExampleSentence ==
    \A i \in Calls :
        (toolPc[i] = "returned" /\ Items(i) = <<ItemA, ItemB>>) =>
            toolResult[i] = "Total fat: 15.0g, saturated fat: 3.0g, sodium: 150mg, cholesterol: 7mg, carbs: 30.0g, sugars: 4.0g, potassium: 75mg."

C2_Witness ==
    \E i \in Calls : toolPc[i] = "returned" /\ Items(i) = <<ItemA, ItemB>>
GenericError == [name |-> "Error", message |-> GenericToolMessage, own |-> <<>>]

\* C3: if API_NINJA_KEY is absent or empty when the tool is invoked, the invocation
\* fails with an error and issues no HTTP request: the key check comes before the
\* GET, and a failed check ends the invocation.
C3_NoKeyNoRequest ==
    \A i \in Calls :
        /\ (apiNinjaKey \in {KeyUndefined, ""} /\ toolPc[i] # "idle") =>
               /\ toolPc[i] = "threw"
               /\ httpGets[i] = 0
               /\ response[i].status = "pending"
               /\ toolResult[i] = NoResult
        /\ httpGets[i] > 0 => apiNinjaKey \notin {KeyUndefined, ""}

\* the key is set to the empty string and an invocation has ended
C3_Witness ==
    \E i \in Calls : apiNinjaKey = "" /\ toolPc[i] = "threw" /\ httpGets[i] = 0

\* the type the response schema declares for each key of an item
DeclaredType ==
    [name |-> "string", calories |-> "string", serving_size_g |-> "string",
     fat_total_g |-> "number", fat_saturated_g |-> "number", protein_g |-> "string",
     sodium_mg |-> "number", potassium_mg |-> "number", cholesterol_mg |-> "number",
     carbohydrates_total_g |-> "number", fiber_g |-> "number", sugar_g |-> "number"]
\* a key of the item is missing, or holds a value of another type than types[key]
Mismatch(item, types) ==
    \E key \in DOMAIN types : key \notin DOMAIN item \/ item[key].t # types[key]
\* the body is no array, or one of its items mismatches
FailsValidation(body, types) ==
    body.kind # "array" \/ \E k \in 1..Len(body.items) : Mismatch(body.items[k], types)

\* C4: if the response fails schema validation (a numeric field arrives as a
\* string, a field is missing in any one item), the tool fails: it returns no
\* summary, neither one computed from the items that did validate nor a default.
C4_InvalidResponseFails ==
    \A i \in Calls :
        (Resolved(i) /\ FailsValidation(response[i].data, DeclaredType)) =>
            /\ toolPc[i] = "threw"
            /\ toolResult[i] = NoResult
            /\ total[i] = ZeroTotal

\* the response held one item that validates and one that lacks a field
C4_Witness ==
    \E i \in Calls :
        /\ Items(i) = <<ItemA, ItemNoSugar>>
        /\ toolPc[i] = "threw"

\* C5: every failure inside the tool (missing key, failure of the GET, schema
\* mismatch) reaches the caller as the same generic error, which carries the
\* fixed message and no detail of the cause.
C5_OneGenericError ==
    \A i \in Calls :
        /\ toolPc[i] = "threw" => toolError[i] = GenericError
        /\ toolPc[i] # "threw" => toolError[i] = NoError

\* two invocations failed for different reasons: a rejected GET and a schema mismatch
C5_Witness ==
    \E i, j \in Calls :
        /\ toolPc[i] = "threw" /\ response[i].status = "rejected"
        /\ toolPc[j] = "threw" /\ Resolved(j)
        /\ toolLog[i] # toolLog[j]
        /\ toolError[i] = toolError[j]

\* the types the claim C8 states: as DeclaredType, with protein_g a number
ClaimedType == [DeclaredType EXCEPT !["protein_g"] = "number"]

\* C8 as stated: a response is accepted exactly when every item has name, calories
\* and serving size as strings and fat, saturated fat, protein, sodium, potassium,
\* cholesterol, carbohydrate, fiber and sugar as numbers.
C8_AsClaimed ==
    \A i \in Calls :
        Resolved(i) =>
            (toolPc[i] = "returned" <=> ~FailsValidation(response[i].data, ClaimedType))

\* C8 amended: a response is accepted exactly when it is an array in which every
\* item has name, calories, serving size and protein as strings and fat, saturated
\* fat, sodium, potassium, cholesterol, carbohydrate, fiber and sugar as numbers;
\* otherwise it is rejected as a whole.
C8_AcceptedExactlyWhenDeclared ==
    \A i \in Calls :
        Resolved(i) =>
            /\ toolPc[i] = "returned" <=> ~FailsValidation(response[i].data, DeclaredType)
            /\ toolPc[i] = "threw" <=> FailsValidation(response[i].data, DeclaredType)

\* a response whose items all hold numbers, protein included, was rejected
C8_Witness ==
    \E i \in Calls :
        /\ Items(i) = <<ItemProteinNumber>>
        /\ ~FailsValidation(response[i].data, ClaimedType)
        /\ toolPc[i] = "threw"

\* what an invocation ends with, from the key and its own response alone
ExpectedOutcome(key, resp) ==
    IF key \in {KeyUndefined, ""} \/ resp.status = "rejected"
       \/ FailsValidation(resp.data, DeclaredType)
    THEN <<"threw", NoResult, GenericError>>
    ELSE <<"returned", ExpectedSentence(resp.data.items), NoError>>
Outcome(i) == <<toolPc[i], toolResult[i], toolError[i]>>

\* C10: overlapping tool invocations do not affect one another: under every
\* interleaving, what an invocation returns or throws is determined by the API
\* key and its own API response, and two invocations with the same response end
\* the same way.
C10_Independent ==
    /\ \A i \in Calls : Finished(i) => Outcome(i) = ExpectedOutcome(apiNinjaKey, response[i])
    /\ \A i, j \in Calls :
          (Finished(i) /\ Finished(j) /\ response[i] = response[j]) => Outcome(i) = Outcome(j)

\* the second invocation, of another flow, started while the first was awaiting
\* its response and returned before it; then the first returned on the same body
C10_Witness ==
    \E i, j \in Calls :
        /\ i < j
        /\ toolFlow[i] # toolFlow[j]
        /\ toolPc[i] = "returned" /\ toolPc[j] = "returned"
        /\ response[i] = response[j]
        /\ ingredientsList[i] # ingredientsList[j]
GenerationFailed(f) == flowPc[f] = "failed" /\ llmOutput[f] = NoOutput
ValidationFailed(f) == flowPc[f] = "failed" /\ llmOutput[f] # NoOutput

\* C6 as stated: whether the generation call fails or the final output fails
\* validation against the output schema, the caller receives the same HttpsError
\* with code "internal", never another error type.
C6_AsClaimed ==
    \A f \in Flows :
        flowPc[f] = "failed" =>
            flowError[f].name = "HttpsError" /\ flowError[f].code = "internal"

\* the text JSON.stringify gives for each error ai.generate rejects with
StringifiedText(err) ==
    CASE err = GenerationError -> "{\"status\":\"UNAVAILABLE\",\"code\":\"503\"}"
      [] err = PlainGenerationError -> "{}"
      [] err = GenericError -> "{}"
      [] OTHER -> "?"

\* C6 amended: if the generation call fails, the caller receives an HttpsError with
\* code "internal" whose message is JSON.stringify of the error (its own enumerable
\* properties: "{}" for a plain Error); an output that fails validation against
\* the output schema is refused by the flow wrapper after the handler returned,
\* outside the handler's try/catch, and is not converted to that HttpsError.
C6_InternalErrorOnGenerationFailure ==
    \A f \in Flows :
        /\ GenerationFailed(f) =>
               /\ flowError[f].name = "HttpsError"
               /\ flowError[f].code = "internal"
               /\ flowError[f].message = StringifiedText(generateError[f])
        /\ ValidationFailed(f) =>
               /\ flowError[f] = OutputSchemaError
               /\ generateError[f] = NoError
        /\ flowPc[f] # "failed" => flowError[f] = NothingThrown

\* one flow failed on a generation error that carries properties, another on an
\* output that is null
C6_Witness ==
    \E f, g \in Flows :
        /\ GenerationFailed(f) /\ generateError[f] = GenerationError
        /\ flowError[f].message = "{\"status\":\"UNAVAILABLE\",\"code\":\"503\"}"
        /\ ValidationFailed(g) /\ llmOutput[g] = NullOutput

\* an object with a recipes sequence of four-string recipes and a string
\* healthiestRecommendation
WellShaped(out) ==
    /\ out.kind = "object"
    /\ out.recipesKind = "array"
    /\ \A k \in DOMAIN out.recipes :
          /\ {"title", "ingredients", "instructions", "nutritionInformation"}
                 \subseteq DOMAIN out.recipes[k]
          /\ out.recipes[k]["title"].t = "string"
          /\ out.recipes[k]["ingredients"].t = "string"
          /\ out.recipes[k]["instructions"].t = "string"
          /\ out.recipes[k]["nutritionInformation"].t = "string"
    /\ out.healthiestRecommendation.t = "string"

\* C7: whenever the flow returns a result, the result has a recipes sequence whose
\* elements have string title, ingredients, instructions and nutritionInformation,
\* and a string healthiestRecommendation; an output that is null, or lacks or
\* mistypes one of these, makes the flow fail instead of being returned.
C7_ResultWellShaped ==
    \A f \in Flows :
        /\ flowPc[f] = "done" => (WellShaped(flowResult[f]) /\ flowResult[f] = llmOutput[f])
        /\ (llmOutput[f] # NoOutput /\ ~WellShaped(llmOutput[f])) =>
               (flowPc[f] = "failed" /\ flowResult[f] = NoOutput)

\* one flow returned three recipes; another failed on a recipe whose title is a number
C7_Witness ==
    \E f, g \in Flows :
        /\ flowPc[f] = "done" /\ Len(flowResult[f].recipes) = 3
        /\ flowPc[g] = "failed"
        /\ llmOutput[g] = GoodOutput(<<GoodRecipe, RecipeTitleNumber, GoodRecipe>>)

\* C9: nothing is retried: a tool invocation issues at most one GET (exactly one
\* when the key is present, none otherwise) and a flow invocation exactly one
\* generate call, also after the call has failed.
C9_NoRetry ==
    /\ \A i \in Calls :
          /\ httpGets[i] <= 1
          /\ toolPc[i] # "idle" =>
                 httpGets[i] = (IF apiNinjaKey \in {KeyUndefined, ""} THEN 0 ELSE 1)
          /\ toolPc[i] = "idle" => httpGets[i] = 0
    /\ \A f \in Flows :
          /\ generateCalls[f] <= 1
          /\ flowPc[f] # "idle" => generateCalls[f] = 1
          /\ flowPc[f] = "idle" => generateCalls[f] = 0

\* a GET was rejected, its invocation threw, and the generate call that issued
\* it failed in turn, each having been made once
C9_Witness ==
    \E i \in Calls, f \in Flows :
        /\ toolFlow[i] = f
        /\ toolPc[i] = "threw" /\ response[i].status = "rejected" /\ httpGets[i] = 1
        /\ flowPc[f] = "failed" /\ generateError[f] = GenericError /\ generateCalls[f] = 1
\* the invocation met a failure: no key, a rejected GET, or a body the schema refuses
ToolFailure(i) ==
    /\ toolPc[i] \notin {"idle", "awaiting"}
    /\ \/ apiNinjaKey \in {KeyUndefined, ""}
       \/ response[i].status = "rejected"
       \/ FailsValidation(response[i].data, DeclaredType)
\* the generation call failed, or its output does not have the declared shape
FlowFailure(f) ==
    \/ generateError[f] # NoError
    \/ (llmOutput[f] # NoOutput /\ ~WellShaped(llmOutput[f]))

C12_AsClaimed ==
    /\ \A i \in Calls : toolPc[i] = "threw" => toolLog[i] # <<>>
    /\ \A f \in Flows :
          flowPc[f] = "failed" =>
              (flowLog[f] # <<>> \/ \E i \in Calls : toolFlow[i] = f /\ toolLog[i] # <<>>)

\* the console.error lines of a failed invocation, from the key and its response
ExpectedLog(key, resp) ==
    IF key \in {KeyUndefined, ""}
    THEN <<"Error in nutritionFactsTool: API_NINJA_KEY environment variable is not set.">>
    ELSE IF resp.status = "rejected"
    THEN <<"Error in nutritionFactsTool: Request failed with status code 502">>
    ELSE <<"Nutrition data validation failed:",
           "Error in nutritionFactsTool: Invalid nutrition data format received from API.">>

\* C12 amended: every adapter-tier failure (missing key, failed GET, schema
\* mismatch) is written to the log, naming its cause, by the time the generic
\* error is thrown, and an invocation that does not fail logs nothing; the flow
\* handler writes no log line, neither when the generation call fails nor when
\* the output fails validation.
C12_AdapterFailuresLogged ==
    /\ \A i \in Calls :
          /\ toolPc[i] = "threw" =>
                 (toolLog[i] # <<>> /\ toolLog[i] = ExpectedLog(apiNinjaKey, response[i]))
          /\ toolPc[i] # "threw" => toolLog[i] = <<>>
    /\ \A f \in Flows : flowLog[f] = <<>>

\* a tool invocation failed on its response and logged both lines, and a flow
\* that made no failing tool call failed on the model service without any line
C12_Witness ==
    /\ \E i \in Calls : toolPc[i] = "threw" /\ Len(toolLog[i]) = 2
    /\ \E f \in Flows :
          /\ flowPc[f] = "failed" /\ generateError[f] = GenerationError
          /\ flowLog[f] = <<>>
          /\ \A i \in Calls : toolFlow[i] = f => toolLog[i] = <<>>
\* C13: the number of recipes is not validated: an output whose recipes array has
\* a length other than three (zero included), every element well-formed and the
\* recommendation a string, passes output validation and is returned to the
\* caller unchanged, with no error.
C13_CountNotValidated ==
    \A f \in Flows :
        (llmOutput[f] # NoOutput /\ WellShaped(llmOutput[f]) /\ Len(llmOutput[f].recipes) # 3) =>
            /\ flowPc[f] = "done"
            /\ flowResult[f] = llmOutput[f]
            /\ flowError[f] = NothingThrown

\* one flow returned no recipe at all and another returned four
C13_Witness ==
    \E f, g \in Flows :
        /\ flowPc[f] = "done" /\ Len(flowResult[f].recipes) = 0
        /\ flowPc[g] = "done" /\ Len(flowResult[g].recipes) = 4
====
